---- MODULE Spec2Model ----
(***************************************************************************)
(* Per-client simulation execution pools of GravityRustBackend:            *)
(* the pools registry and the sockets table (main.rs), the launch and      *)
(* delete endpoints and the worker loop (routes.rs), the socket connect,   *)
(* button_press and disconnect handlers (handlers.rs) and the shutdown     *)
(* drain (main.rs).                                                        *)
(*                                                                         *)
(* No handler awaits anything once it has its arguments: it runs to its    *)
(* end on the runtime thread that picked it up, blocking that thread on    *)
(* the std Mutex and on JoinHandle::join.  The model therefore has         *)
(* two runtime threads, each idle or inside one handler, and one OS        *)
(* thread per spawned pool running simulate_loop.  A step of the model     *)
(* is one access to shared state: a lock, the registry, the sockets table, *)
(* a stop flag, a thread spawn or a join.                                  *)
(*                                                                         *)
(* Time is counted in ticks of 1/240 s, so that the emit period 1/60 s is  *)
(* TargetTicks = 4 ticks and time_delta, simulation_time are integers.     *)
(***************************************************************************)
EXTENDS Naturals, FiniteSets

\* ------------------------------------------------------------------ bounds
\* Pools (worker threads) spawned in one behaviour.
MaxPools == 2
\* Largest time_delta, in ticks.
MaxDt == 4
\* Largest simulation_time, in ticks.
MaxT == 6
\* target_step_time = 1/60 s, in ticks.
TargetTicks == 4

\* the client ids (socket ids) of a behaviour
Clients == {"u1"}
\* press.direction: the four directions of the match and one other string
Directions == {"up", "down", "left", "right", "sideways"}
\* the runtime threads: the handlers that can be in progress at once
Threads == {1, 2}
\* the directions of the button presses of SpecLoop
LoopDirections == {"up", "sideways"}
PoolIds == 1..MaxPools
NoPool == 0
\* the launches of Spec: time_delta, simulation_time, and whether a space
\* object is controllable
LaunchParams == {<<2, 2, FALSE>>, <<4, 1, FALSE>>}

Free == <<"free", 0>>
Thread(t) == <<"thread", t>>
Worker(k) == <<"worker", k>>

VARIABLES
  pools,      \* AppState.pools: the registry, a set of <<user_id, pool>> entries
  sockets,    \* AppState.sockets: the user ids with a SocketRef
  poolsLock,  \* holder of the Mutex around pools
  sock,       \* the connection of every client: new, connected, closing, gone
  sd,         \* shutdown_signal: wait, drain, done
  sdList,     \* user_ids shutdown_signal has still to stop
  task,       \* the handler a runtime thread is in, or idle
  pc,         \* its position in that handler
  uid,        \* the user_id the handler works on
  held,       \* the `pool` the handler took out of, or found in, the registry
  newp,       \* the pool launch_simulation has spawned and not yet inserted
  resp,       \* the response of the last request the thread served
  pool,       \* every SimulationExecutionPool ever built, with its worker
  hist        \* history of every pool and of the drain (for the properties)

vars == <<pools, sockets, poolsLock, sock, sd, sdList, task, pc, uid, held, newp, resp, pool, hist>>
threadVars == <<task, pc, uid, held, newp, resp>>
tableVars == <<pools, sockets, poolsLock, sock, sd, sdList>>

\* ------------------------------------------------------------ pure helpers
Max(a, b) == IF a >= b THEN a ELSE b

\* (target_step_time / time_delta).max(1.0).floor()
StepsPerEmit(dt) == Max(1, TargetTicks \div dt)

\* (simulation_time / time_delta).floor()
TotalSteps(T, dt) == T \div dt

\* HashMap::get
MapGet(m, k) == IF \E e \in m : e[1] = k THEN (CHOOSE e \in m : e[1] = k)[2] ELSE NoPool

\* a remove that clears the map
MapRemoveAll(m, k) == {}

\* HashMap::remove
MapRemove(m, k) == {e \in m : e[1] # k}

\* a map that keeps the old entry beside the new one
MapInsertKeepOld(m, k, v) == m \cup {<<k, v>>}

\* HashMap::insert: the entry of the key is replaced, the old value dropped
MapInsert(m, k, v) == {e \in m : e[1] # k} \cup {<<k, v>>}

\* HashMap::keys
MapKeys(m) == {e[1] : e \in m}

NoAcc == [some |-> FALSE, up |-> FALSE, down |-> FALSE, left |-> FALSE, right |-> FALSE]
FreshAcc == [some |-> TRUE, up |-> FALSE, down |-> FALSE, left |-> FALSE, right |-> FALSE]

\* a press that flips the named flag
ApplyPressToggle(a, dir, pressed) ==
  IF ~a.some THEN a
  ELSE IF dir = "up" THEN [a EXCEPT !.up = (pressed # a.up)]
  ELSE IF dir = "down" THEN [a EXCEPT !.down = (pressed # a.down)]
  ELSE IF dir = "left" THEN [a EXCEPT !.left = (pressed # a.left)]
  ELSE IF dir = "right" THEN [a EXCEPT !.right = (pressed # a.right)]
  ELSE a

\* a press that also clears the opposing flag
ApplyPressOpposing(a, dir, pressed) ==
  IF ~a.some THEN a
  ELSE IF dir = "up" THEN [a EXCEPT !.up = pressed, !.down = FALSE]
  ELSE IF dir = "down" THEN [a EXCEPT !.down = pressed, !.up = FALSE]
  ELSE IF dir = "left" THEN [a EXCEPT !.left = pressed, !.right = FALSE]
  ELSE IF dir = "right" THEN [a EXCEPT !.right = pressed, !.left = FALSE]
  ELSE a

\* the match of handle_button_press on press.direction
ApplyPress(a, dir, pressed) ==
  IF ~a.some THEN a
  ELSE IF dir = "up" THEN [a EXCEPT !.up = pressed]
  ELSE IF dir = "down" THEN [a EXCEPT !.down = pressed]
  ELSE IF dir = "left" THEN [a EXCEPT !.left = pressed]
  ELSE IF dir = "right" THEN [a EXCEPT !.right = pressed]
  ELSE a

\* a pool slot no launch has filled yet
NoWorker ==
  [owner |-> "", time_delta |-> 1, simulation_time |-> 1, acc |-> NoAcc,
   lock |-> Free, stop_flag |-> FALSE, wpc |-> "none", step_count |-> 0, i |-> 0]

\* the pool and the thread that thread::spawn starts
NewWorker(u, dt, T, ctrl) ==
  [owner |-> u, time_delta |-> dt, simulation_time |-> T,
   acc |-> IF ctrl THEN FreshAcc ELSE NoAcc,
   lock |-> Free, stop_flag |-> FALSE, wpc |-> "start", step_count |-> 0, i |-> 0]

NoHist == [installed |-> FALSE, joined |-> FALSE, stepsAfterStop |-> 0, emitsAfterStop |-> 0]

Spawned == {k \in PoolIds : pool[k].wpc # "none"}
Live == {k \in PoolIds : pool[k].wpc \notin {"none", "done"}}
InLaunch(t) == task[t] = "launch"

\* a handler is picked up by the first idle runtime thread
FirstIdle(t) == task[t] = "idle" /\ \A s \in Threads : s < t => task[s] # "idle"

\* where stop_execution_pool returns to
AfterStop(t) ==
  CASE task[t] = "launch" -> "l_sockets"
    [] task[t] = "delete" -> "del_ret"
    [] task[t] = "disconnect" -> "d_sockets"
    [] OTHER -> "sd_loop"

\* -------------------------------------------------------------------- Init
Init ==
  /\ pools = {}
  /\ sockets = {}
  /\ poolsLock = Free
  /\ sock = [u \in Clients |-> "new"]
  /\ sd = "wait"
  /\ sdList = {}
  /\ task = [t \in Threads |-> "idle"]
  /\ pc = [t \in Threads |-> "idle"]
  /\ uid = [t \in Threads |-> ""]
  /\ held = [t \in Threads |-> NoPool]
  /\ newp = [t \in Threads |-> NoPool]
  /\ resp = [t \in Threads |-> "none"]
  /\ pool = [k \in PoolIds |-> NoWorker]
  /\ hist = [p |-> [k \in PoolIds |-> NoHist], disc |-> [u \in Clients |-> NoPool],
             captured |-> {}, overlap |-> FALSE, lapped |-> [u \in Clients |-> FALSE]]

\* the handler of thread t has returned
Idle(t) ==
  /\ task' = [task EXCEPT ![t] = "idle"]
  /\ pc' = [pc EXCEPT ![t] = "idle"]
  /\ uid' = [uid EXCEPT ![t] = ""]

\* ------------------------------------------------- stop_execution_pool
\* a stop that looks the entry up and leaves it in the registry
SepRemoveKeepEntry(t) ==
  /\ pc[t] = "sep_remove"
  /\ poolsLock = Free
  /\ LET k == MapGet(pools, uid[t]) IN
     IF k = NoPool
     THEN /\ pc' = [pc EXCEPT ![t] = AfterStop(t)]
          /\ UNCHANGED <<pools, poolsLock, held, hist>>
     ELSE /\ pools' = pools
          /\ poolsLock' = Thread(t)
          /\ held' = [held EXCEPT ![t] = k]
          /\ pc' = [pc EXCEPT ![t] = "sep_store"]
          /\ hist' = IF task[t] = "disconnect" THEN [hist EXCEPT !.disc[uid[t]] = k] ELSE hist
  /\ UNCHANGED <<sockets, sock, sd, sdList, task, uid, newp, resp, pool>>

\* map.remove(user_id) under the pools lock; without an entry the guard is
\* dropped and the function returns.
SepRemove(t) ==
  /\ pc[t] = "sep_remove"
  /\ poolsLock = Free
  /\ LET k == MapGet(pools, uid[t]) IN
     IF k = NoPool
     THEN /\ pc' = [pc EXCEPT ![t] = AfterStop(t)]
          /\ UNCHANGED <<pools, poolsLock, held, hist>>
     ELSE /\ pools' = MapRemove(pools, uid[t])
          /\ poolsLock' = Thread(t)
          /\ held' = [held EXCEPT ![t] = k]
          /\ pc' = [pc EXCEPT ![t] = "sep_store"]
          /\ hist' = IF task[t] = "disconnect" THEN [hist EXCEPT !.disc[uid[t]] = k] ELSE hist
  /\ UNCHANGED <<sockets, sock, sd, sdList, task, uid, newp, resp, pool>>

\* pool.stop_flag.store(true)
SepStore(t) ==
  /\ pc[t] = "sep_store"
  /\ pool' = [pool EXCEPT ![held[t]].stop_flag = TRUE]
  /\ pc' = [pc EXCEPT ![t] = "sep_join"]
  /\ UNCHANGED <<tableVars, task, uid, held, newp, resp, hist>>

\* a join that returns while the thread still runs
SepJoinNoWait(t) ==
  /\ pc[t] = "sep_join"
  /\ hist' = [hist EXCEPT !.p[held[t]].joined = TRUE]
  /\ poolsLock' = Free
  /\ held' = [held EXCEPT ![t] = NoPool]
  /\ pc' = [pc EXCEPT ![t] = AfterStop(t)]
  /\ UNCHANGED <<pools, sockets, sock, sd, sdList, task, uid, newp, resp, pool>>

\* pool.thread.join(): returns once the worker has terminated; the pools
\* guard is dropped on return.
SepJoin(t) ==
  /\ pc[t] = "sep_join"
  /\ pool[held[t]].wpc = "done"
  /\ hist' = [hist EXCEPT !.p[held[t]].joined = TRUE]
  /\ poolsLock' = Free
  /\ held' = [held EXCEPT ![t] = NoPool]
  /\ pc' = [pc EXCEPT ![t] = AfterStop(t)]
  /\ UNCHANGED <<pools, sockets, sock, sd, sdList, task, uid, newp, resp, pool>>

\* ---------------------------------------------------- launch_simulation
\* a pool slot is left for every launch in progress and for one more
Budget ==
  Cardinality(Spawned) + Cardinality({s \in Threads : InLaunch(s) /\ newp[s] = NoPool}) < MaxPools

\* the launch of u that thread t begins overlaps another launch of u
Laps(t, u) == \E s \in Threads : s # t /\ InLaunch(s) /\ uid[s] = u

\* a launch that does not stop the pool of its client first
LaunchBeginNoStop(t, u) ==
  /\ FirstIdle(t)
  /\ sd # "done"
  /\ task' = [task EXCEPT ![t] = "launch"]
  /\ pc' = [pc EXCEPT ![t] = "l_sockets"]
  /\ uid' = [uid EXCEPT ![t] = u]
  /\ resp' = [resp EXCEPT ![t] = "none"]
  /\ hist' = [hist EXCEPT !.overlap = @ \/ sd = "drain",
                          !.lapped[u] = @ \/ Laps(t, u)]
  /\ UNCHANGED <<tableVars, held, newp, pool>>

\* the request arrives: user_id is read and stop_execution_pool called
LaunchBegin(t, u) ==
  /\ FirstIdle(t)
  /\ sd # "done"
  /\ task' = [task EXCEPT ![t] = "launch"]
  /\ pc' = [pc EXCEPT ![t] = "sep_remove"]
  /\ uid' = [uid EXCEPT ![t] = u]
  /\ resp' = [resp EXCEPT ![t] = "none"]
  /\ hist' = [hist EXCEPT !.overlap = @ \/ sd = "drain",
                          !.lapped[u] = @ \/ Laps(t, u)]
  /\ UNCHANGED <<tableVars, held, newp, pool>>

\* a launch that does not look into the sockets table
LaunchSocketsNoCheck(t, valid, dt, T, ctrl) ==
  /\ pc[t] = "l_sockets"
  /\ valid => Cardinality(Spawned) < MaxPools
  /\ IF ~valid
     THEN /\ resp' = [resp EXCEPT ![t] = "invalid"]
          /\ Idle(t)
          /\ UNCHANGED <<pool, newp>>
     ELSE LET k == Cardinality(Spawned) + 1 IN
          /\ pool' = [pool EXCEPT ![k] = NewWorker(uid[t], dt, T, ctrl)]
          /\ newp' = [newp EXCEPT ![t] = k]
          /\ pc' = [pc EXCEPT ![t] = "l_insert"]
          /\ UNCHANGED <<resp, uid, task>>
  /\ UNCHANGED <<tableVars, held, hist>>

\* sockets.get(&user_id), the space objects and Simulation::new, then the
\* stop flag and thread::spawn
LaunchSockets(t, valid, dt, T, ctrl) ==
  /\ pc[t] = "l_sockets"
  /\ valid => Cardinality(Spawned) < MaxPools
  /\ IF uid[t] \notin sockets
     THEN /\ resp' = [resp EXCEPT ![t] = "not_connected"]
          /\ Idle(t)
          /\ UNCHANGED <<pool, newp>>
     ELSE IF ~valid
     THEN /\ resp' = [resp EXCEPT ![t] = "invalid"]
          /\ Idle(t)
          /\ UNCHANGED <<pool, newp>>
     ELSE LET k == Cardinality(Spawned) + 1 IN
          /\ pool' = [pool EXCEPT ![k] = NewWorker(uid[t], dt, T, ctrl)]
          /\ newp' = [newp EXCEPT ![t] = k]
          /\ pc' = [pc EXCEPT ![t] = "l_insert"]
          /\ UNCHANGED <<resp, uid, task>>
  /\ UNCHANGED <<tableVars, held, hist>>

\* state.pools.lock().unwrap().insert(user_id, pool), and the 200 response
LaunchInsert(t) ==
  /\ pc[t] = "l_insert"
  /\ poolsLock = Free
  /\ pools' = MapInsert(pools, uid[t], newp[t])
  /\ hist' = [hist EXCEPT !.p[newp[t]].installed = TRUE]
  /\ newp' = [newp EXCEPT ![t] = NoPool]
  /\ resp' = [resp EXCEPT ![t] = "ok"]
  /\ Idle(t)
  /\ UNCHANGED <<sockets, poolsLock, sock, sd, sdList, held, pool>>

\* ---------------------------------------------------- delete_simulation
DeleteBegin(t, u) ==
  /\ FirstIdle(t)
  /\ sd # "done"
  /\ task' = [task EXCEPT ![t] = "delete"]
  /\ pc' = [pc EXCEPT ![t] = "sep_remove"]
  /\ uid' = [uid EXCEPT ![t] = u]
  /\ resp' = [resp EXCEPT ![t] = "none"]
  /\ UNCHANGED <<tableVars, held, newp, pool, hist>>

DeleteReturn(t) ==
  /\ pc[t] = "del_ret"
  /\ resp' = [resp EXCEPT ![t] = "ok"]
  /\ Idle(t)
  /\ UNCHANGED <<tableVars, held, newp, pool, hist>>

\* ------------------------------------------- configure_socket_io handlers
\* a client connects: sockets.insert(user_id, socket_ref)
Connect(u) ==
  /\ sock[u] = "new"
  /\ sd # "done"
  /\ sockets' = sockets \cup {u}
  /\ sock' = [sock EXCEPT ![u] = "connected"]
  /\ UNCHANGED <<pools, poolsLock, sd, sdList, threadVars, pool, hist>>

\* a disconnect that drops the sockets entry before it stops the pool
DisconnectSocketsFirst(t, u) ==
  /\ FirstIdle(t)
  /\ sock[u] = "connected"
  /\ sockets' = sockets \ {u}
  /\ sock' = [sock EXCEPT ![u] = "closing"]
  /\ task' = [task EXCEPT ![t] = "disconnect"]
  /\ pc' = [pc EXCEPT ![t] = "sep_remove"]
  /\ uid' = [uid EXCEPT ![t] = u]
  /\ UNCHANGED <<pools, poolsLock, sd, sdList, held, newp, resp, pool, hist>>

\* on_disconnect begins: stop_execution_pool(&state, &user_id)
Disconnect(t, u) ==
  /\ FirstIdle(t)
  /\ sock[u] = "connected"
  /\ sock' = [sock EXCEPT ![u] = "closing"]
  /\ task' = [task EXCEPT ![t] = "disconnect"]
  /\ pc' = [pc EXCEPT ![t] = "sep_remove"]
  /\ uid' = [uid EXCEPT ![t] = u]
  /\ UNCHANGED <<pools, sockets, poolsLock, sd, sdList, held, newp, resp, pool, hist>>

\* on_disconnect ends: sockets.remove(&user_id)
DisconnectSockets(t) ==
  /\ pc[t] = "d_sockets"
  /\ sockets' = sockets \ {uid[t]}
  /\ sock' = [sock EXCEPT ![uid[t]] = "gone"]
  /\ Idle(t)
  /\ UNCHANGED <<pools, poolsLock, sd, sdList, held, newp, resp, pool, hist>>

\* a button_press event of a connected client reaches its handler
BtnBegin(t, u) ==
  /\ FirstIdle(t)
  /\ sock[u] = "connected"
  /\ task' = [task EXCEPT ![t] = "button"]
  /\ pc' = [pc EXCEPT ![t] = "bp_pools"]
  /\ uid' = [uid EXCEPT ![t] = u]
  /\ UNCHANGED <<tableVars, held, newp, resp, pool, hist>>

\* state.pools.lock().unwrap().get_mut(user_id): the guard is a temporary
\* of the if-let and lives to the end of its block
BtnPools(t) ==
  /\ pc[t] = "bp_pools"
  /\ poolsLock = Free
  /\ LET k == MapGet(pools, uid[t]) IN
     IF k = NoPool
     THEN /\ Idle(t)
          /\ UNCHANGED <<poolsLock, held>>
     ELSE /\ poolsLock' = Thread(t)
          /\ held' = [held EXCEPT ![t] = k]
          /\ pc' = [pc EXCEPT ![t] = "bp_sim"]
          /\ UNCHANGED <<task, uid>>
  /\ UNCHANGED <<pools, sockets, sock, sd, sdList, newp, resp, pool, hist>>

\* pool.simulation.lock().unwrap()
BtnSim(t) ==
  /\ pc[t] = "bp_sim"
  /\ pool[held[t]].lock = Free
  /\ pool' = [pool EXCEPT ![held[t]].lock = Thread(t)]
  /\ pc' = [pc EXCEPT ![t] = "bp_write"]
  /\ UNCHANGED <<tableVars, task, uid, held, newp, resp, hist>>

\* controllable_acceleration.as_mut() and the match on the direction; both
\* guards are dropped at the end of the if-let
BtnWrite(t, dir, pressed) ==
  /\ pc[t] = "bp_write"
  /\ pool' = [pool EXCEPT ![held[t]].acc = ApplyPress(@, dir, pressed),
                          ![held[t]].lock = Free]
  /\ poolsLock' = Free
  /\ held' = [held EXCEPT ![t] = NoPool]
  /\ Idle(t)
  /\ UNCHANGED <<pools, sockets, sock, sd, sdList, newp, resp, hist>>

\* ------------------------------------------------------------ simulate_loop
steps_per_emit(k) == StepsPerEmit(pool[k].time_delta)
total_steps(k) == TotalSteps(pool[k].simulation_time, pool[k].time_delta)

\* simulation.lock(): time_delta and simulation_time are read for
\* steps_per_emit and total_steps, the guard is dropped
WStart(k) ==
  /\ pool[k].wpc = "start"
  /\ pool[k].lock = Free
  /\ pool' = [pool EXCEPT ![k].wpc = "while"]
  /\ UNCHANGED <<tableVars, threadVars, hist>>

\* while !stop_flag.load() && step_count < total_steps
WWhile(k) ==
  /\ pool[k].wpc = "while"
  /\ IF pool[k].stop_flag \/ pool[k].step_count >= total_steps(k)
     THEN /\ pool' = [pool EXCEPT ![k].wpc = "done"]
          /\ hist' = [hist EXCEPT !.p[k].stepsAfterStop = 0, !.p[k].emitsAfterStop = 0]
     ELSE /\ pool' = [pool EXCEPT ![k].wpc = "for", ![k].i = 0]
          /\ UNCHANGED hist
  /\ UNCHANGED <<tableVars, threadVars>>

\* a batch that looks at the stop flag only between emits
WForNoStopCheck(k) ==
  /\ pool[k].wpc = "for"
  /\ IF pool[k].i >= steps_per_emit(k) \/ pool[k].step_count >= total_steps(k)
     THEN pool' = [pool EXCEPT ![k].wpc = "snap", ![k].i = 0]
     ELSE pool' = [pool EXCEPT ![k].wpc = "lock"]
  /\ UNCHANGED <<tableVars, threadVars, hist>>

\* a batch that breaks on the stop flag alone and always runs to its end
WForNoBudgetCheck(k) ==
  /\ pool[k].wpc = "for"
  /\ IF pool[k].i >= steps_per_emit(k) \/ pool[k].stop_flag
     THEN pool' = [pool EXCEPT ![k].wpc = "snap", ![k].i = 0]
     ELSE pool' = [pool EXCEPT ![k].wpc = "lock"]
  /\ UNCHANGED <<tableVars, threadVars, hist>>

\* for _ in 0..steps_per_emit, and the break on stop_flag or step_count
WFor(k) ==
  /\ pool[k].wpc = "for"
  /\ IF pool[k].i >= steps_per_emit(k) \/ pool[k].stop_flag \/ pool[k].step_count >= total_steps(k)
     THEN pool' = [pool EXCEPT ![k].wpc = "snap", ![k].i = 0]
     ELSE pool' = [pool EXCEPT ![k].wpc = "lock"]
  /\ UNCHANGED <<tableVars, threadVars, hist>>

\* a step that does not wait for the Simulation lock
WLockNoWait(k) ==
  /\ pool[k].wpc = "lock"
  /\ pool' = [pool EXCEPT ![k].wpc = "step"]
  /\ UNCHANGED <<tableVars, threadVars, hist>>

\* a worker that goes through the registry lock for every step
WLockViaRegistry(k) ==
  /\ pool[k].wpc = "lock"
  /\ poolsLock = Free
  /\ pool[k].lock = Free
  /\ pool' = [pool EXCEPT ![k].lock = Worker(k), ![k].wpc = "step"]
  /\ UNCHANGED <<tableVars, threadVars, hist>>

\* let mut simulation_guard = simulation.lock().unwrap()
WLock(k) ==
  /\ pool[k].wpc = "lock"
  /\ pool[k].lock = Free
  /\ pool' = [pool EXCEPT ![k].lock = Worker(k), ![k].wpc = "step"]
  /\ UNCHANGED <<tableVars, threadVars, hist>>

\* calculate_step(); step_count += 1; the guard is dropped
WStep(k) ==
  /\ pool[k].wpc = "step"
  /\ pool' = [pool EXCEPT ![k].step_count = @ + 1, ![k].i = @ + 1,
                          ![k].lock = Free, ![k].wpc = "for"]
  /\ hist' = IF pool[k].stop_flag
             THEN [hist EXCEPT !.p[k].stepsAfterStop = @ + 1]
             ELSE hist
  /\ UNCHANGED <<tableVars, threadVars>>

\* simulation.lock() for the snapshot
WSnap(k) ==
  /\ pool[k].wpc = "snap"
  /\ pool[k].lock = Free
  /\ pool' = [pool EXCEPT ![k].lock = Worker(k), ![k].wpc = "snapread"]
  /\ UNCHANGED <<tableVars, threadVars, hist>>

\* the space objects are read, the guard is dropped
WSnapRead(k) ==
  /\ pool[k].wpc = "snapread"
  /\ pool' = [pool EXCEPT ![k].lock = Free, ![k].wpc = "emit"]
  /\ UNCHANGED <<tableVars, threadVars, hist>>

\* socket_ref.emit("update_step", &payload), then the sleep
WEmit(k) ==
  /\ pool[k].wpc = "emit"
  /\ pool' = [pool EXCEPT ![k].wpc = "while"]
  /\ hist' = IF pool[k].stop_flag
             THEN [hist EXCEPT !.p[k].emitsAfterStop = @ + 1]
             ELSE hist
  /\ UNCHANGED <<tableVars, threadVars>>

\* ---------------------------------------------------------- shutdown_signal
\* ctrl_c, then pools.keys().cloned().collect() under the pools lock
SdCapture(t) ==
  /\ FirstIdle(t)
  /\ sd = "wait"
  /\ poolsLock = Free
  /\ sd' = "drain"
  /\ sdList' = MapKeys(pools)
  /\ hist' = [hist EXCEPT !.captured = {e[2] : e \in pools},
                          !.overlap = \E s \in Threads : InLaunch(s)]
  /\ task' = [task EXCEPT ![t] = "shutdown"]
  /\ pc' = [pc EXCEPT ![t] = "sd_loop"]
  /\ UNCHANGED <<pools, sockets, poolsLock, sock, uid, held, newp, resp, pool>>

\* for user_id in user_ids: stop_execution_pool(&state, &user_id)
SdNext(t, u) ==
  /\ pc[t] = "sd_loop"
  /\ u \in sdList
  /\ sdList' = sdList \ {u}
  /\ uid' = [uid EXCEPT ![t] = u]
  /\ pc' = [pc EXCEPT ![t] = "sep_remove"]
  /\ UNCHANGED <<pools, sockets, poolsLock, sock, sd, task, held, newp, resp, pool, hist>>

\* the loop is over: shutdown_signal returns
SdReturn(t) ==
  /\ pc[t] = "sd_loop"
  /\ sdList = {}
  /\ sd' = "done"
  /\ Idle(t)
  /\ UNCHANGED <<pools, sockets, poolsLock, sock, sdList, held, newp, resp, pool, hist>>

\* -------------------------------------------------------------------- Next
Launches ==
  \/ \E t \in Threads, u \in Clients : Budget /\ LaunchBegin(t, u)
  \/ \E t \in Threads, valid \in BOOLEAN, par \in LaunchParams :
       LaunchSockets(t, valid, par[1], par[2], par[3])
  \/ \E t \in Threads : LaunchInsert(t)
  \/ \E u \in Clients : Connect(u)

\* the handlers for the clients cs and the press directions dirs
HandlersFor(cs, dirs) ==
  \/ \E t \in Threads : SepRemove(t)
  \/ \E t \in Threads : SepStore(t)
  \/ \E t \in Threads : SepJoin(t)
  \/ \E t \in Threads, u \in cs : DeleteBegin(t, u)
  \/ \E t \in Threads : DeleteReturn(t)
  \/ \E t \in Threads, u \in cs : Disconnect(t, u)
  \/ \E t \in Threads : DisconnectSockets(t)
  \/ \E t \in Threads, u \in cs : BtnBegin(t, u)
  \/ \E t \in Threads : BtnPools(t)
  \/ \E t \in Threads : BtnSim(t)
  \/ \E t \in Threads, dir \in dirs, pressed \in BOOLEAN : BtnWrite(t, dir, pressed)
  \/ \E t \in Threads : SdCapture(t)
  \/ \E t \in Threads, u \in cs : SdNext(t, u)
  \/ \E t \in Threads : SdReturn(t)

HandlersOf(dirs) == HandlersFor(Clients, dirs)

Workers ==
  \/ \E k \in PoolIds : WStart(k)
  \/ \E k \in PoolIds : WWhile(k)
  \/ \E k \in PoolIds : WFor(k)
  \/ \E k \in PoolIds : WLock(k)
  \/ \E k \in PoolIds : WStep(k)
  \/ \E k \in PoolIds : WSnap(k)
  \/ \E k \in PoolIds : WSnapRead(k)
  \/ \E k \in PoolIds : WEmit(k)

Next == Launches \/ HandlersOf(Directions) \/ Workers

\* Every interleaving of connects, launches, deletes, button presses,
\* disconnects, the shutdown drain and the workers, for the launches of
\* LaunchParams.
Spec == Init /\ [][Next]_vars

\* the next step of the handler that runtime thread t is in
HandlerStep(t) ==
  \/ SepRemove(t) \/ SepStore(t) \/ SepJoin(t)
  \/ \E valid \in BOOLEAN, par \in LaunchParams : LaunchSockets(t, valid, par[1], par[2], par[3])
  \/ LaunchInsert(t)
  \/ DeleteReturn(t)
  \/ DisconnectSockets(t)
  \/ BtnPools(t) \/ BtnSim(t)
  \/ \E dir \in Directions, pressed \in BOOLEAN : BtnWrite(t, dir, pressed)
  \/ \E u \in Clients : SdNext(t, u)
  \/ SdReturn(t)

\* the next step of the worker of pool k
WorkerStep(k) ==
  \/ WStart(k) \/ WWhile(k) \/ WFor(k) \/ WLock(k)
  \/ WStep(k) \/ WSnap(k) \/ WSnapRead(k) \/ WEmit(k)

\* Fair scheduling: a thread whose next step is possible again and again
\* takes it; a lock that is free again and again is acquired.  Requests
\* and events arrive or not.
Fairness ==
  /\ \A t \in Threads : SF_vars(HandlerStep(t))
  /\ \A k \in PoolIds : SF_vars(WorkerStep(k))

\* the launch of SpecFair: one step, two steps to the emit
FairParams == {<<2, 2, FALSE>>}

NextFair ==
  \/ \E t \in Threads, u \in Clients : Budget /\ LaunchBegin(t, u)
  \/ \E t \in Threads, valid \in BOOLEAN, par \in FairParams :
       LaunchSockets(t, valid, par[1], par[2], par[3])
  \/ \E t \in Threads : LaunchInsert(t)
  \/ \E u \in Clients : Connect(u)
  \/ HandlersOf(LoopDirections)
  \/ Workers

\* Every interleaving of connects, launches, deletes, button presses,
\* disconnects, the shutdown drain and the workers, under fair scheduling.
SpecFair == Init /\ [][NextFair]_vars /\ Fairness

\* One client is connected and its launch has returned: the pool is in the
\* registry and its worker has not run yet.  Every time_delta up to MaxDt,
\* every simulation_time up to MaxT, with and without a controllable object.
InitLoop ==
  /\ pools = {<<"u1", 1>>}
  /\ sockets = {"u1"}
  /\ poolsLock = Free
  /\ sock = [u \in Clients |-> IF u = "u1" THEN "connected" ELSE "new"]
  /\ sd = "wait"
  /\ sdList = {}
  /\ task = [t \in Threads |-> "idle"]
  /\ pc = [t \in Threads |-> "idle"]
  /\ uid = [t \in Threads |-> ""]
  /\ held = [t \in Threads |-> NoPool]
  /\ newp = [t \in Threads |-> NoPool]
  /\ resp = [t \in Threads |-> IF t = 1 THEN "ok" ELSE "none"]
  /\ \E dt \in 1..MaxDt, T \in 1..MaxT, ctrl \in BOOLEAN :
       pool = [k \in PoolIds |-> IF k = 1 THEN NewWorker("u1", dt, T, ctrl) ELSE NoWorker]
  /\ hist = [p |-> [k \in PoolIds |-> IF k = 1 THEN [NoHist EXCEPT !.installed = TRUE] ELSE NoHist],
             disc |-> [u \in Clients |-> NoPool], captured |-> {}, overlap |-> FALSE,
             lapped |-> [u \in Clients |-> FALSE]]

NextLoop == HandlersOf(LoopDirections) \/ Workers

\* The worker loop of that pool against button presses, a delete, the
\* disconnect and the shutdown drain.
SpecLoop == InitLoop /\ [][NextLoop]_vars

\* the launches, the disconnect and the workers; a launch that arrives when
\* MaxPools workers have been spawned carries invalid parameters
NextRelaunch ==
  \/ \E t \in Threads, u \in Clients : LaunchBegin(t, u)
  \/ \E t \in Threads, valid \in BOOLEAN, par \in LaunchParams :
       LaunchSockets(t, valid, par[1], par[2], par[3])
  \/ \E t \in Threads : LaunchInsert(t)
  \/ \E u \in Clients : Connect(u)
  \/ \E t \in Threads : SepRemove(t)
  \/ \E t \in Threads : SepStore(t)
  \/ \E t \in Threads : SepJoin(t)
  \/ \E t \in Threads, u \in Clients : Disconnect(t, u)
  \/ \E t \in Threads : DisconnectSockets(t)
  \/ Workers

\* Any number of launches of one client, failing ones among them, against
\* its disconnect and the workers.
SpecRelaunch == Init /\ [][NextRelaunch]_vars

\* the clients of SpecPair
PairClients == {"u1", "u2"}
\* the launch of the first client of SpecPair, with a controllable object
PairFirst == <<4, 4, TRUE>>
\* the launch of its second client
PairSecond == <<4, 2, FALSE>>

\* Two clients are connected and the launch of each has returned: both
\* pools are in the registry, no worker has run yet.
InitPair ==
  /\ pools = {<<"u1", 1>>, <<"u2", 2>>}
  /\ sockets = PairClients
  /\ poolsLock = Free
  /\ sock = [u \in PairClients |-> "connected"]
  /\ sd = "wait"
  /\ sdList = {}
  /\ task = [t \in Threads |-> "idle"]
  /\ pc = [t \in Threads |-> "idle"]
  /\ uid = [t \in Threads |-> ""]
  /\ held = [t \in Threads |-> NoPool]
  /\ newp = [t \in Threads |-> NoPool]
  /\ resp = [t \in Threads |-> "ok"]
  /\ pool = [k \in PoolIds |->
               IF k = 1 THEN NewWorker("u1", PairFirst[1], PairFirst[2], PairFirst[3])
               ELSE IF k = 2 THEN NewWorker("u2", PairSecond[1], PairSecond[2], PairSecond[3])
               ELSE NoWorker]
  /\ hist = [p |-> [k \in PoolIds |-> IF k <= 2 THEN [NoHist EXCEPT !.installed = TRUE] ELSE NoHist],
             disc |-> [u \in PairClients |-> NoPool], captured |-> {}, overlap |-> FALSE,
             lapped |-> [u \in PairClients |-> FALSE]]

NextPair == HandlersFor(PairClients, Directions) \/ Workers

\* The pools of two clients against the deletes, button presses and
\* disconnects of both, the shutdown drain and the two workers.
SpecPair == InitPair /\ [][NextPair]_vars

\* ------------------------------------------------------------- properties
\* the threads with an access to the Simulation of pool k in progress
Accessors(k) ==
  (IF pool[k].wpc \in {"step", "snapread"} THEN {Worker(k)} ELSE {})
    \cup {Thread(t) : t \in {s \in Threads : pc[s] = "bp_write" /\ held[s] = k}}

\* C1: whenever the registry holds a pool for a client id, every other pool
\* that was once in the registry for that id has had its stop flag set and
\* its worker joined: no insert displaces an entry whose worker runs on.
C1_DisplacedPoolJoined ==
  \A e \in pools : \A k \in PoolIds :
    (k # e[2] /\ pool[k].owner = e[1] /\ hist.p[k].installed)
      => (pool[k].stop_flag /\ hist.p[k].joined)

\* C2: once stop_execution_pool has returned for an entry it found, the
\* worker of that entry is terminated and stays so: its step_count never
\* changes again and it never reaches another emit.
C2_JoinedWorkerTerminated ==
  [][\A k \in PoolIds :
       hist'.p[k].joined =>
         /\ pool'[k].wpc = "done"
         /\ hist.p[k].joined =>
              (pool'[k].step_count = pool[k].step_count /\ pool[k].wpc = "done")]_vars

\* C2 witness: a worker was stopped before its horizon and has been joined.
C2_Witness ==
  \E k \in PoolIds :
    hist.p[k].joined /\ pool[k].stop_flag /\ pool[k].step_count < total_steps(k)

\* C3: for every client id at most one worker thread has not terminated.
C3_SingleLiveWorker ==
  \A u \in Clients : Cardinality({k \in Live : pool[k].owner = u}) <= 1

\* C4: once the disconnect handler of a client has completed, the registry
\* holds no pool for that client and none of its workers is still running.
C4_DisconnectLeavesNothing ==
  \A u \in Clients :
    sock[u] = "gone" =>
      (MapGet(pools, u) = NoPool /\ \A k \in Live : pool[k].owner # u)

\* C5: the registry holds at most one entry per client id.
C5_OneEntryPerClient ==
  \A e1 \in pools : \A e2 \in pools : e1[1] = e2[1] => e1 = e2

\* C5 witness: a second pool has been inserted for a client id whose first
\* pool was in the registry.
C5_Witness ==
  \E e \in pools : \E k \in PoolIds :
    k # e[2] /\ pool[k].owner = e[1] /\ hist.p[k].installed

\* C6: while the worker of the pool that a disconnect took out of the
\* registry is still running, the sockets entry of that client is present.
C6_SocketOutlivesWorker ==
  \A u \in Clients :
    (hist.disc[u] # NoPool /\ pool[hist.disc[u]].wpc # "done") => u \in sockets

\* C6 witness: the disconnect has set the stop flag of a pool whose worker
\* is still in its loop.
C6_Witness ==
  \E u \in Clients :
    /\ hist.disc[u] # NoPool
    /\ pool[hist.disc[u]].stop_flag
    /\ pool[hist.disc[u]].wpc \in {"for", "lock", "step", "snap", "snapread", "emit"}

\* C7: a worker never makes more than total_steps calls of calculate_step,
\* and one that has terminated with its stop flag unset has made exactly
\* total_steps calls.
C7_StepBudget ==
  \A k \in Spawned :
    /\ pool[k].step_count <= total_steps(k)
    /\ (pool[k].wpc = "done" /\ ~pool[k].stop_flag) => pool[k].step_count = total_steps(k)

\* C7 witness: an unstopped worker has terminated after a number of steps
\* that steps_per_emit does not divide.
C7_Witness ==
  \E k \in Spawned :
    /\ pool[k].wpc = "done" /\ ~pool[k].stop_flag
    /\ steps_per_emit(k) = 2 /\ total_steps(k) = 3 /\ pool[k].step_count = 3

\* C7 witness for total_steps = 0: the worker terminates without a step.
C7_WitnessZero ==
  \E k \in Spawned :
    pool[k].wpc = "done" /\ ~pool[k].stop_flag /\ total_steps(k) = 0 /\ pool[k].step_count = 0

\* C8: a worker whose stop flag is set begins at most one further
\* calculate_step and emits at most one further update_step.
C8_StopLatency ==
  \A k \in PoolIds : hist.p[k].stepsAfterStop <= 1 /\ hist.p[k].emitsAfterStop <= 1

\* C8 witness: the one step after the stop has been made while the batch
\* and the horizon both had steps left.
C8_Witness ==
  \E k \in PoolIds :
    /\ hist.p[k].stepsAfterStop = 1
    /\ pool[k].wpc = "for"
    /\ pool[k].i < steps_per_emit(k)
    /\ pool[k].step_count < total_steps(k)

\* C9: when shutdown_signal has returned, every pool that was in the
\* registry at the capture has its stop flag set and its worker joined, and
\* if no launch overlapped the drain the registry is empty and no worker
\* is running.
C9_DrainStopsAll ==
  sd = "done" =>
    /\ \A k \in hist.captured : pool[k].stop_flag /\ hist.p[k].joined
    /\ ~hist.overlap => (pools = {} /\ Live = {})

\* C10: at most one access to a Simulation is in progress, and the thread
\* making it holds that Simulation's lock.
C10_SimulationExclusive ==
  \A k \in PoolIds :
    /\ Cardinality(Accessors(k)) <= 1
    /\ \A a \in Accessors(k) : pool[k].lock = a

\* C10 witness: the button handler writes a flag while the worker waits for
\* the Simulation lock.
C10_Witness ==
  \E t \in Threads :
    /\ pc[t] = "bp_write"
    /\ pool[held[t]].acc.some
    /\ pool[held[t]].wpc \in {"lock", "snap"}

\* C11: no thread waits for or holds a Simulation lock while it holds the
\* pools registry lock; the button_press handler has released the registry
\* lock before it acquires the Simulation lock.
C11_LockOrder ==
  \A t \in Threads :
    poolsLock = Thread(t) =>
      /\ pc[t] # "bp_sim"
      /\ \A k \in PoolIds : pool[k].lock # Thread(t)

\* C12: a launch that finds no sockets entry for its client id answers
\* "Socket is not connected" and returns; that step spawns no worker and
\* leaves the registry as it is, and no other launch gets that answer.
C12_NotConnectedLaunch ==
  [][\A t \in Threads :
       /\ (pc[t] = "l_sockets" /\ pc'[t] # "l_sockets" /\ uid[t] \notin sockets) =>
            /\ resp'[t] = "not_connected"
            /\ task'[t] = "idle" /\ newp'[t] = NoPool
            /\ pool' = pool /\ pools' = pools
       /\ (resp'[t] = "not_connected" /\ resp[t] # "not_connected") =>
            (pc[t] = "l_sockets" /\ uid[t] \notin sockets)]_vars

\* C12 witness: a launch has been refused for a client that had connected
\* and gone, and nothing was spawned.
C12_Witness ==
  \E t \in Threads :
    /\ resp[t] = "not_connected" /\ task[t] = "idle"
    /\ \E u \in Clients : sock[u] = "gone"
    /\ Spawned = {} /\ pools = {}

\* C13: delete_simulation always answers success.  When its
\* stop_execution_pool returns, the registry has no entry for the id and the
\* worker of the entry it found has been joined.  A delete that finds no
\* entry (such as a second delete for the same id) changes nothing.  No
\* step of a delete changes the sockets table, another client's registry
\* entry or another client's pool.
C13_DeleteIdempotent ==
  [][\A t \in Threads :
       (task[t] = "delete" /\ pc'[t] # pc[t]) =>
         /\ task'[t] = "idle" => resp'[t] = "ok"
         /\ pc'[t] = "del_ret" =>
              /\ MapGet(pools', uid[t]) = NoPool
              /\ held[t] # NoPool =>
                   (hist'.p[held[t]].joined /\ pool'[held[t]].wpc = "done")
         /\ (pc[t] = "sep_remove" /\ MapGet(pools, uid[t]) = NoPool) =>
              (pc'[t] = "del_ret" /\ pools' = pools /\ pool' = pool)
         /\ sockets' = sockets
         /\ {e \in pools' : e[1] # uid[t]} = {e \in pools : e[1] # uid[t]}
         /\ \A k \in PoolIds : pool[k].owner # uid[t] => pool'[k] = pool[k]]_vars

\* C13 witness: two deletes for u1 are about to answer, the first has
\* joined the worker of u1 and the second found no entry; the pool of u2 is
\* still in the registry with its worker not yet run.
C13_Witness ==
  /\ \A t \in Threads : pc[t] = "del_ret" /\ uid[t] = "u1"
  /\ hist.p[1].joined /\ pool[1].stop_flag
  /\ pools = {<<"u2", 2>>} /\ pool[2].wpc = "start"
  /\ sockets = PairClients /\ sd = "wait"

\* C14: whenever the button_press handler writes, then for every direction
\* and is_pressed value the handler's effect applied twice to the state it
\* found gives the same four flags as applied once; the write itself is
\* that effect for some direction and value.
C14_PressIdempotent ==
  [][\A t \in Threads :
       (pc[t] = "bp_write" /\ pc'[t] # pc[t]) =>
         LET a == pool[held[t]].acc IN
         /\ \E dir \in Directions, p \in BOOLEAN : pool'[held[t]].acc = ApplyPress(a, dir, p)
         /\ \A dir \in Directions, p \in BOOLEAN :
              ApplyPress(ApplyPress(a, dir, p), dir, p) = ApplyPress(a, dir, p)]_vars

\* C14 witness: a handler is about to write to a controllable acceleration
\* in which earlier presses have set the flags up and left.
C14_Witness ==
  \E t \in Threads :
    /\ pc[t] = "bp_write"
    /\ pool[held[t]].acc.some /\ pool[held[t]].acc.up /\ pool[held[t]].acc.left

\* the four directions of the match
NamedDirections == {"up", "down", "left", "right"}

\* the effect the contract gives a button_press on the flags
PressContract(a, dir, p) ==
  IF a.some /\ dir \in NamedDirections THEN [a EXCEPT ![dir] = p] ELSE a

\* C15: no step of a button_press handler changes the registry, the sockets
\* table, a response, or anything of a pool but its lock and its flags.
\* Flags change only in the write to the pool of the handler's own client,
\* only when it has a controllable acceleration, and then exactly one named
\* flag takes the value is_pressed; for every direction and value the
\* handler's effect is that of the contract, a no-op for any other string.
C15_PressFrame ==
  [][\A t \in Threads :
       (task[t] = "button" /\ pc'[t] # pc[t]) =>
         /\ pools' = pools /\ sockets' = sockets /\ sock' = sock /\ resp' = resp
         /\ \A k \in PoolIds :
              /\ [pool'[k] EXCEPT !.lock = pool[k].lock, !.acc = pool[k].acc] = pool[k]
              /\ pool'[k].acc # pool[k].acc =>
                   /\ pc[t] = "bp_write" /\ k = held[t] /\ pool[k].owner = uid[t]
                   /\ pool[k].acc.some
                   /\ \E dir \in NamedDirections, p \in BOOLEAN :
                        pool'[k].acc = [pool[k].acc EXCEPT ![dir] = p]
         /\ pc[t] = "bp_write" =>
              \A dir \in Directions, p \in BOOLEAN :
                ApplyPress(pool[held[t]].acc, dir, p) = PressContract(pool[held[t]].acc, dir, p)]_vars

\* C15 witness: the opposing flags up and down of u1 are both set and the
\* other two are not, while a press of u2, whose simulation has no
\* controllable acceleration, is about to be applied.
C15_Witness ==
  /\ pool[1].acc = [FreshAcc EXCEPT !.up = TRUE, !.down = TRUE]
  /\ \E t \in Threads :
       pc[t] = "bp_write" /\ uid[t] = "u2" /\ ~pool[held[t]].acc.some

\* the pool's entry is in the registry
Registered(k) == <<pool[k].owner, k>> \in pools

C17_SequentialLaunches ==
  [][\A t \in Threads :
       (pc[t] = "l_sockets" /\ pc'[t] = "l_insert" /\ ~hist.lapped[uid[t]]) =>
         \A j \in Spawned :
           pool[j].owner = uid[t] =>
             (pool[j].stop_flag /\ pool[j].wpc = "done" /\ hist.p[j].joined)]_vars

\* C17 witness: the second launch of a client has spawned its worker after
\* the first launch had returned; the first worker was stopped before its
\* one step and has been joined.
C17_Witness ==
  \E t \in Threads :
    /\ pc[t] = "l_insert" /\ newp[t] = 2 /\ ~hist.lapped[uid[t]]
    /\ pool[1].owner = uid[t] /\ hist.p[1].installed /\ hist.p[1].joined
    /\ total_steps(1) = 1 /\ pool[1].step_count = 0
    /\ sock[uid[t]] = "connected" /\ sd = "wait"

\* the worker of pool k has terminated on its step budget
Completed(k) == pool[k].wpc = "done" /\ ~pool[k].stop_flag

\* C18: no step of a worker changes the registry or its stop flag.  The
\* entry of a worker that terminated on its step budget stays in the
\* registry with the stop flag unset until a stop_execution_pool (of a
\* delete, a disconnect, a launch or the drain) removes it, and the join of
\* that stop_execution_pool can return at once.
C18_CompletedPoolStays ==
  [][\A k \in Spawned :
       /\ pool'[k].wpc # pool[k].wpc =>
            (pools' = pools /\ pool'[k].stop_flag = pool[k].stop_flag)
       /\ (Completed(k) /\ Registered(k)) =>
            \/ Completed(k)' /\ Registered(k)'
            \/ \E t \in Threads :
                 /\ pc[t] = "sep_remove" /\ pc'[t] = "sep_store" /\ held'[t] = k
                 /\ task[t] \in {"delete", "disconnect", "launch", "shutdown"}
       /\ \A t \in Threads :
            (pc[t] = "sep_join" /\ held[t] = k /\ pool[k].wpc = "done") => ENABLED SepJoin(t)]_vars

\* a stop_execution_pool in progress has taken pool k out of the registry
BeingStopped(k) == \E s \in Threads : held[s] = k /\ pc[s] \in {"sep_store", "sep_join"}

\* C19: when a launch returns an error, every pool of its client that was
\* in the registry before and is not in it now has had its stop flag set
\* and its worker joined, or is in the hands of a stop_execution_pool in
\* progress; and the registry has no entry for the client unless a launch
\* that overlapped another has inserted one.  The failed launch leaves no
\* earlier simulation of the client running.
C19_FailedLaunchTearsDown ==
  [][\A t \in Threads :
       (pc[t] = "l_sockets" /\ task'[t] = "idle") =>
         /\ resp'[t] \in {"not_connected", "invalid"}
         /\ ~hist.lapped[uid[t]] => MapGet(pools', uid[t]) = NoPool
         /\ \A j \in Spawned :
              (pool[j].owner = uid[t] /\ hist.p[j].installed /\ ~Registered(j)) =>
                \/ pool[j].stop_flag /\ pool[j].wpc = "done" /\ hist.p[j].joined
                \/ BeingStopped(j)]_vars

\* thread t is inside stop_execution_pool
InStop(t) == pc[t] \in {"sep_remove", "sep_store", "sep_join"}

\* some handler or worker has not finished
Busy == (\E t \in Threads : task[t] # "idle") \/ Live # {}

====
